---------------------------- MODULE Spec2Model ----------------------------
(***************************************************************************)
(* optimismo: the optimism score of a string.                              *)
(*                                                                         *)
(* A call of optimismo is modelled as a small state machine whose program  *)
(* counter walks through the body of the function.  The versions of the    *)
(* function kept in the repository are modelled side by side:              *)
(*   Spec     v4.0.1  (src/unnamed/part_001)                               *)
(*   Spec201  v2.0.1  (src/index.js)                                       *)
(*   SpecAll  a call of v4.0.1 or of v2.0.1                                *)
(*   Spec040  v0.4.0  (src/unnamed/part_002)                               *)
(*   Spec020  v0.2.0  (src/README.md)                                      *)
(*   Spec014  v0.1.4  (src/unnamed/part_003)                               *)
(*                                                                         *)
(* Representation.                                                         *)
(*  - A JavaScript string is a sequence of pieces.  The piece " " is a run *)
(*    of whitespace; every other piece is a run of non-whitespace          *)
(*    characters, so 'will favor' is <<"will", " ", "favor">> and          *)
(*    'nomatches' is <<"no", "matches">>.                                  *)
(*  - A JavaScript value is a record [t, n, s, a]: its kind, and the       *)
(*    number, string or array it holds.                                    *)
(*  - Lexicon weights are in hundredths (0.60 is 60).  A score is          *)
(*    i * 5.037104721 + num / (100 * den): the intercept is kept as a unit *)
(*    of its own, so that how often it was added can be read off a score.  *)
(***************************************************************************)
EXTENDS Integers, Sequences, FiniteSets, TLC

VARIABLES
    pc,        \* position in the body of optimismo
    str0,      \* the str argument as the caller passed it
    optsArg,   \* the opts argument as the caller passed it
    str,       \* the local str
    opts,      \* the properties of the options object
    tokens,    \* the local tokens
    wordcount, \* the local wordcount
    future,    \* the local future: the counted future-vocabulary matches
    matches,   \* the local matches (affect in v0.4.0)
    ints,      \* the local ints.OPTIMISM
    taskRes,   \* the results async.parallel has collected from its tasks
    results,   \* the local results of the 'full' branch
    ret        \* what the call returned

vars == <<pc, str0, optsArg, str, opts, tokens, wordcount, future, matches,
          ints, taskRes, results, ret>>

---------------------------------------------------------------------------
(* Bounds of the model *)

\* the longest input text, in words
MaxWords == 3

---------------------------------------------------------------------------
(* JavaScript values *)

JSV(t, n, s, a) == [t |-> t, n |-> n, s |-> s, a |-> a]

Undef    == JSV("undefined", 0, <<>>, <<>>)
Null     == JSV("null", 0, <<>>, <<>>)
NaN      == JSV("nan", 0, <<>>, <<>>)
PosInf   == JSV("pinf", 0, <<>>, <<>>)
NegInf   == JSV("ninf", 0, <<>>, <<>>)
Obj      == JSV("object", 0, <<>>, <<>>)
True     == JSV("boolean", 1, <<>>, <<>>)
False    == JSV("boolean", 0, <<>>, <<>>)
Num(n)   == JSV("num", n, <<>>, <<>>)
Str(s)   == JSV("string", 0, s, <<>>)
Arr(a)   == JSV("array", 0, <<>>, a)

\* typeof v
TypeOf(v) ==
    CASE v.t \in {"num", "nan", "pinf", "ninf"} -> "number"
      [] v.t \in {"null", "array", "object"}    -> "object"
      [] OTHER                                  -> v.t

\* !v
Falsy(v) ==
    \/ v.t \in {"undefined", "null", "nan"}
    \/ v.t = "num" /\ v.n = 0
    \/ v.t = "boolean" /\ v.n = 0
    \/ v.t = "string" /\ v.s = <<>>

\* the decimal numerals the model's strings may hold, in hundredths
NumeralValue(p) ==
    CASE p = "0.5" -> 50
      [] p = "0"   -> 0
      [] p = "5"   -> 500
      [] OTHER     -> -1

IsNumeral(p) == p \in {"0.5", "0", "5"}

\* Number(v)
ToNumber(v) ==
    CASE v.t \in {"num", "nan", "pinf", "ninf"} -> v
      [] v.t = "undefined" -> NaN
      [] v.t = "null"      -> Num(0)
      [] v.t = "boolean"   -> Num(100 * v.n)
      [] v.t = "string"    ->
            IF v.s = <<>> THEN Num(0)
            ELSE IF Len(v.s) = 1 /\ IsNumeral(v.s[1])
                 THEN Num(NumeralValue(v.s[1]))
                 ELSE NaN
      [] v.t = "array"     ->
            IF v.a = <<>> THEN Num(0)
            ELSE IF Len(v.a) = 1 THEN Num(100 * v.a[1]) ELSE NaN
      [] OTHER             -> NaN

\* a < b on numbers: every comparison with NaN is false
NumLess(a, b) ==
    CASE a.t = "nan" \/ b.t = "nan"   -> FALSE
      [] a.t = "pinf"                 -> FALSE
      [] b.t = "ninf"                 -> FALSE
      [] a.t = "ninf"                 -> TRUE
      [] b.t = "pinf"                 -> TRUE
      [] OTHER                        -> a.n < b.n

\* a <= b on numbers
NumLeq(a, b) ==
    CASE a.t = "nan" \/ b.t = "nan"   -> FALSE
      [] OTHER                        -> a = b \/ NumLess(a, b)

\* v == 0 (loose equality with the number 0)
LooseEqZero(v) ==
    CASE v.t \in {"undefined", "null", "object"} -> FALSE
      [] OTHER -> ToNumber(v) = Num(0)

---------------------------------------------------------------------------
(* Strings *)

Range(f) == {f[i] : i \in DOMAIN f}

SetMin(S) == CHOOSE x \in S : \A y \in S : x <= y
SetMax(S) == CHOOSE x \in S : \A y \in S : x >= y

\* String.prototype.toLowerCase on one piece
LowerPiece(p) ==
    CASE p = "Favour"  -> "favour"
      [] p = "MATCHES" -> "matches"
      [] p = "GB"      -> "gb"
      [] OTHER         -> p

toLowerCase(s) == [i \in DOMAIN s |-> LowerPiece(s[i])]

\* String.prototype.trim
trim(s) ==
    LET keep == {i \in DOMAIN s : s[i] # " "}
    IN  IF keep = {} THEN <<>> ELSE SubSeq(s, SetMin(keep), SetMax(keep))

\* String.prototype.match(/<word>/gi) is truthy: the string holds the word
MatchesRe(s, word) == \E i \in DOMAIN s : LowerPiece(s[i]) = word

\* value.toString() of the non-string values the model passes as str
toString(v) ==
    CASE v.t = "string"  -> v.s
      [] v.t = "num"     -> IF v.n = 500 THEN <<"5">> ELSE <<"0">>
      [] v.t = "boolean" -> IF v.n = 1 THEN <<"true">> ELSE <<"false">>
      [] OTHER           -> <<"[object", " ", "Object]">>

\* british_american_translate: uk2us, piece by piece
Uk2UsPiece(p) == IF p = "favour" THEN "favor" ELSE p

uk2us(s) == [i \in DOMAIN s |-> Uk2UsPiece(s[i])]

\* the words of a string: its maximal runs of non-whitespace pieces
RECURSIVE SplitWords(_, _, _)
SplitWords(s, cur, acc) ==
    IF s = <<>>
    THEN IF cur = <<>> THEN acc ELSE Append(acc, cur)
    ELSE IF s[1] = " "
         THEN SplitWords(Tail(s), <<>>, IF cur = <<>> THEN acc ELSE Append(acc, cur))
         ELSE SplitWords(Tail(s), Append(cur, s[1]), acc)

Words(s) == SplitWords(s, <<>>, <<>>)

\* Array.prototype.join(' ') of an array of strings
RECURSIVE JoinSpace(_)
JoinSpace(ws) ==
    IF ws = <<>> THEN <<>>
    ELSE IF Len(ws) = 1 THEN ws[1]
         ELSE ws[1] \o <<" ">> \o JoinSpace(Tail(ws))

---------------------------------------------------------------------------
(* Lexicon data: ./data/future.json and ./data/affect.json *)

\* the future (prospection) vocabulary, in file order
futureLex ==
    << <<"favor">>,
       <<"will">>,
       <<"will", " ", "favor">>,
       <<"sad", " ", "will", " ", "favor">> >>

\* the affect lexicon, in file order: word and weight (hundredths)
affectLex ==
    << [word |-> <<"favor">>,                           weight |-> 60],
       [word |-> <<"sad">>,                             weight |-> -98],
       [word |-> <<"will", " ", "favor">>,              weight |-> 40],
       [word |-> <<"sad", " ", "will", " ", "favor">>,  weight |-> -20] >>

FutureSet  == Range(futureLex)
AffectKeys == {affectLex[i].word : i \in DOMAIN affectLex}
WeightOf(w) == (CHOOSE e \in Range(affectLex) : e.word = w).weight

---------------------------------------------------------------------------
(* External modules *)

\* what a tokenizer call yields: null, or an array of tokens
NullTokens    == [isNull |-> TRUE,  arr |-> <<>>]
TokenArray(a) == [isNull |-> FALSE, arr |-> a]

\* happynodetokenizer: the tokens of a string.  For a string without any
\* token the result is the tokenizer's failure signal, which is null or an
\* empty array depending on the tokenizer installed.
tokenizer(s) ==
    IF Words(s) = <<>>
    THEN {NullTokens, TokenArray(<<>>)}
    ELSE {TokenArray(Words(s))}

\* !tokens
NoTokens(t) == t.isNull

\* simplengrams(str, n): the runs of n consecutive words of str
simplengrams(s, n) ==
    LET w == Words(s)
    IN  [i \in 1..(Len(w) - n + 1) |-> SubSeq(w, i, i + n - 1)]

\* arr2string: each inner array joined by ' '
arr2string(arr) == [i \in DOMAIN arr |-> JoinSpace(arr[i])]

---------------------------------------------------------------------------
(* Gating and matching *)

RECURSIVE Unique(_)
\* [...new Set(arr)]: the distinct items in order of first occurrence
Unique(arr) ==
    IF arr = <<>> THEN <<>>
    ELSE LET u == Unique(SubSeq(arr, 1, Len(arr) - 1))
             x == arr[Len(arr)]
         IN  IF x \in Range(u) THEN u ELSE Append(u, x)

Count(x, arr) == Cardinality({i \in DOMAIN arr : arr[i] = x})

\* getFuture with the vocabulary test left out
getFutureUngated(arr) == Unique(arr)

\* getFuture (v4.0.1): the distinct tokens that are in the future vocabulary
getFuture(arr) == SelectSeq(Unique(arr), LAMBDA w : w \in FutureSet)

\* lex-helpers itemCount: each distinct item of arr with its number of
\* occurrences in arr
itemCount(arr) ==
    LET u == Unique(arr)
    IN  [i \in DOMAIN u |-> [term |-> u[i], freq |-> Count(u[i], arr)]]

\* lex-helpers getMatches: the lexicon entries whose word is a key of obj
\* and whose weight lies within the bounds, with the counted frequency
getMatches(obj, lex, min, max) ==
    LET hit(e) == /\ \E j \in DOMAIN obj : obj[j].term = e.word
                  /\ NumLess(min, Num(e.weight))
                  /\ NumLeq(Num(e.weight), max)
        sel    == SelectSeq(lex, hit)
    IN  [i \in DOMAIN sel |->
            [term   |-> sel[i].word,
             freq   |-> (CHOOSE f \in Range(obj) : f.term = sel[i].word).freq,
             weight |-> sel[i].weight]]

---------------------------------------------------------------------------
(* Scores *)

\* the number i * 5.037104721 + num / (100 * den)
Score(i, num, den) == [i |-> i, num |-> num, den |-> den]

Zero      == Score(0, 0, 1)
Intercept == Score(1, 0, 1)

RECURSIVE SumSeq(_)
SumSeq(s) == IF s = <<>> THEN 0 ELSE s[1] + SumSeq(Tail(s))

\* calcLex with the intercept added inside the loop, once per match
calcLexPerMatch(obj, int) ==
    Score(Len(obj) * int.i, SumSeq(obj) + Len(obj) * int.num, 1)

\* calcLex: the weights added up, plus the intercept
calcLex(obj, int) == Score(int.i, SumSeq(obj) + int.num, 1)

\* the encoding is the frequency encoding
IsFrequency(encoding) == encoding = Str(<<"frequency">>)

\* lex-helpers doLex: the aggregate score of the matches under the encoding,
\* to be rounded to places
doLex(m, int, encoding, wc, places) ==
    [value  |-> IF IsFrequency(encoding)
                THEN Score(int.i,
                           SumSeq([k \in DOMAIN m |-> m[k].freq * m[k].weight]),
                           wc)
                ELSE calcLex([k \in DOMAIN m |-> m[k].weight], int),
     places |-> places]

RECURSIVE InsertDesc(_, _)
\* the keyed item x put into the sorted s, behind the items whose key is not
\* smaller
InsertDesc(s, x) ==
    IF s = <<>> THEN <<x>>
    ELSE IF s[1].key >= x.key
         THEN <<s[1]>> \o InsertDesc(Tail(s), x)
         ELSE <<x>> \o s

RECURSIVE SortDesc(_)
\* the keyed items by descending key, equal keys in their given order
SortDesc(s) ==
    IF s = <<>> THEN <<>>
    ELSE InsertDesc(SortDesc(SubSeq(s, 1, Len(s) - 1)), s[Len(s)])

\* lex-helpers doMatches: the table of matches, sorted, and its info block
doMatches(m, encoding, wc, sortBy, places) ==
    LET val(r)  == IF IsFrequency(encoding) THEN r.freq * r.weight ELSE r.weight
        row(k)  == [term |-> m[k].term, freq |-> m[k].freq,
                    weight |-> m[k].weight, value |-> val(m[k])]
        key(k)  == CASE sortBy = Str(<<"weight">>) -> m[k].weight
                     [] sortBy = Str(<<"lex">>)    -> val(m[k])
                     [] OTHER                      -> m[k].freq
        sorted  == SortDesc([k \in DOMAIN m |-> [key |-> key(k), row |-> row(k)]])
        total   == SumSeq([k \in DOMAIN m |-> m[k].freq])
    IN  [rows   |-> [k \in DOMAIN sorted |-> sorted[k].row],
         info   |-> [total_matches        |-> total,
                     total_unique_matches |-> Len(m),
                     total_tokens         |-> wc,
                     percent_matches      |-> <<total, wc>>],
         places |-> places]

NoLex     == [value |-> Zero, places |-> Undef]
NoMatches ==
    [rows   |-> <<>>,
     info   |-> [total_matches |-> 0, total_unique_matches |-> 0,
                 total_tokens |-> 0, percent_matches |-> <<0, 0>>],
     places |-> Undef]

\* what a call returns: kind is "pending" (not returned yet), "null",
\* "undefined", "lex", "matches", "full" or "TypeError" (thrown)
Ret(kind, lex, table) == [kind |-> kind, values |-> lex, matches |-> table]

---------------------------------------------------------------------------
(* The calls the model makes *)

WordAlphabet == {"Favour", "favor", "sad", "will"}

WordSeqs == UNION {[1..n -> WordAlphabet] : n \in 0..MaxWords}

\* the words separated by single blanks, between the padding
Text(ws, pad) == pad \o JoinSpace([i \in DOMAIN ws |-> <<ws[i]>>]) \o pad

Texts == {Text(ws, pad) : ws \in WordSeqs, pad \in {<<>>, <<" ">>}}

\* the str arguments: texts, and values that are not strings (0, 5, false)
StrArgs == {Str(s) : s \in Texts} \cup {Null, Undef, Num(0), Num(500), False}

\* an options object without any property
EmptyOpts ==
    [encoding |-> Undef, locale |-> Undef, logs |-> Undef, suppressLog |-> Undef,
     max |-> Undef, min |-> Undef, nGrams |-> Undef, noInt |-> Undef,
     output |-> Undef, places |-> Undef, sortBy |-> Undef, wcGrams |-> Undef]

MinValues    == {Undef, Num(-50), Str(<<"abc">>)}
MaxValues    == {Undef, Num(50), Str(<<"0.5">>), Obj}
OutputValues == {Undef, Str(<<"lex">>), Str(<<"matches">>), Str(<<"full">>),
                 Str(<<"MATCHES">>), Str(<<"no", "matches">>), Num(500)}
NGramValues  == {Undef, Arr(<<0>>), Arr(<<2>>), Arr(<<3, 2>>), Arr(<<2, 0>>),
                 Num(0), Str(<<"abc">>)}
WcGramValues == {Undef, True, Str(<<"true">>)}

\* the options objects: the options that act together are varied together
OptObjects ==
    {[EmptyOpts EXCEPT !.min = a, !.max = b] : a \in MinValues, b \in MaxValues}
    \cup
    {[EmptyOpts EXCEPT !.output = o, !.noInt = n, !.encoding = e] :
        o \in OutputValues, n \in {Undef, True}, e \in {Undef, Str(<<"frequency">>)}}
    \cup
    {[EmptyOpts EXCEPT !.nGrams = g, !.wcGrams = w] :
        g \in NGramValues, w \in WcGramValues}
    \cup
    {[EmptyOpts EXCEPT !.locale = l] : l \in {Str(<<"GB">>), Num(100), Null}}
    \cup
    {[EmptyOpts EXCEPT !.places = Num(200)],
     [EmptyOpts EXCEPT !.sortBy = Str(<<"weight">>), !.output = Str(<<"full">>)],
     [EmptyOpts EXCEPT !.noInt = Str(<<"true">>)],
     [EmptyOpts EXCEPT !.suppressLog = True]}

\* the opts argument: left out, null, a primitive such as 5, or an object
OptsArgs ==
    {[kind |-> k, obj |-> EmptyOpts] : k \in {"omitted", "null", "primitive"}}
    \cup {[kind |-> "object", obj |-> o] : o \in OptObjects}

Pending    == Ret("pending", NoLex, NoMatches)
RetNull    == Ret("null", NoLex, NoMatches)
RetUndef   == Ret("undefined", NoLex, NoMatches)
TypeError  == Ret("TypeError", NoLex, NoMatches)

---------------------------------------------------------------------------
(* optimismo v4.0.1 *)

\* the default options with 'frequency' as the default encoding
ResolveOptionsFrequency(o) ==
    LET logs1 == IF TypeOf(o.logs) = "undefined" THEN Num(300) ELSE o.logs
        max1  == IF TypeOf(o.max) = "undefined" THEN PosInf ELSE o.max
        min1  == IF TypeOf(o.min) = "undefined" THEN NegInf ELSE o.min
        conv  == TypeOf(max1) # "number" \/ TypeOf(min1) # "number"
        min2  == IF conv THEN ToNumber(min1) ELSE min1
        max2  == IF conv THEN ToNumber(max1) ELSE max1
        ng1   == IF TypeOf(o.nGrams) # "undefined" THEN o.nGrams ELSE Arr(<<2, 3>>)
    IN  [encoding    |-> IF TypeOf(o.encoding) = "undefined"
                         THEN Str(<<"frequency">>) ELSE o.encoding,
         locale      |-> IF TypeOf(o.locale) = "undefined"
                         THEN Str(<<"US">>) ELSE o.locale,
         logs        |-> IF ~Falsy(o.suppressLog) THEN Num(0) ELSE logs1,
         suppressLog |-> o.suppressLog,
         max         |-> IF ~conv \/ TypeOf(max2) = "number" THEN max2 ELSE PosInf,
         min         |-> IF ~conv \/ TypeOf(min2) = "number" THEN min2 ELSE NegInf,
         nGrams      |-> IF ng1.t = "array" THEN ng1
                         ELSE IF LooseEqZero(ng1) THEN Arr(<<0>>)
                         ELSE Arr(<<2, 3>>),
         noInt       |-> IF TypeOf(o.noInt) = "undefined" THEN False ELSE o.noInt,
         output      |-> IF TypeOf(o.output) = "undefined"
                         THEN Str(<<"lex">>) ELSE o.output,
         places      |-> o.places,
         sortBy      |-> IF TypeOf(o.sortBy) = "undefined"
                         THEN Str(<<"freq">>) ELSE o.sortBy,
         wcGrams     |-> IF TypeOf(o.wcGrams) = "undefined" THEN False ELSE o.wcGrams]

\* the options object after the default options have been written into it
ResolveOptions(o) ==
    LET logs1 == IF TypeOf(o.logs) = "undefined" THEN Num(300) ELSE o.logs
        max1  == IF TypeOf(o.max) = "undefined" THEN PosInf ELSE o.max
        min1  == IF TypeOf(o.min) = "undefined" THEN NegInf ELSE o.min
        conv  == TypeOf(max1) # "number" \/ TypeOf(min1) # "number"
        min2  == IF conv THEN ToNumber(min1) ELSE min1
        max2  == IF conv THEN ToNumber(max1) ELSE max1
        ng1   == IF TypeOf(o.nGrams) # "undefined" THEN o.nGrams ELSE Arr(<<2, 3>>)
    IN  [encoding    |-> IF TypeOf(o.encoding) = "undefined"
                         THEN Str(<<"binary">>) ELSE o.encoding,
         locale      |-> IF TypeOf(o.locale) = "undefined"
                         THEN Str(<<"US">>) ELSE o.locale,
         logs        |-> IF ~Falsy(o.suppressLog) THEN Num(0) ELSE logs1,
         suppressLog |-> o.suppressLog,
         max         |-> IF ~conv \/ TypeOf(max2) = "number" THEN max2 ELSE PosInf,
         min         |-> IF ~conv \/ TypeOf(min2) = "number" THEN min2 ELSE NegInf,
         nGrams      |-> IF ng1.t = "array" THEN ng1
                         ELSE IF LooseEqZero(ng1) THEN Arr(<<0>>)
                         ELSE Arr(<<2, 3>>),
         noInt       |-> IF TypeOf(o.noInt) = "undefined" THEN False ELSE o.noInt,
         output      |-> IF TypeOf(o.output) = "undefined"
                         THEN Str(<<"lex">>) ELSE o.output,
         places      |-> o.places,
         sortBy      |-> IF TypeOf(o.sortBy) = "undefined"
                         THEN Str(<<"freq">>) ELSE o.sortBy,
         wcGrams     |-> IF TypeOf(o.wcGrams) = "undefined" THEN False ELSE o.wcGrams]

RECURSIVE EachNGramUntilSkip(_, _, _, _)
\* async.each over nGrams, were the lengths behind a skipped one left out
EachNGramUntilSkip(nGrams, toks, s, wc) ==
    IF nGrams = <<>> THEN toks
    ELSE LET n == nGrams[1]
         IN  IF wc < n THEN toks
             ELSE EachNGramUntilSkip(Tail(nGrams),
                                     arr2string(simplengrams(s, n)) \o toks,
                                     s, wc)

RECURSIVE EachNGram(_, _, _, _)
\* async.each over nGrams: the n-grams of every length the text is long
\* enough for are put in front of the tokens
EachNGram(nGrams, toks, s, wc) ==
    IF nGrams = <<>> THEN toks
    ELSE LET n == nGrams[1]
         IN  EachNGram(Tail(nGrams),
                       IF wc < n THEN toks
                       ELSE arr2string(simplengrams(s, n)) \o toks,
                       s, wc)

\* where control is once the last task of async.parallel has called back,
\* had the completion callback been deferred
AfterLastTaskDeferred == "return"

\* where control is once the last task of async.parallel has called back:
\* the completion callback is run at once, before async.parallel returns
AfterLastTask == "complete"

Init ==
    /\ pc = "call"
    /\ str0 \in StrArgs
    /\ optsArg \in OptsArgs
    /\ str = str0
    /\ opts = optsArg.obj
    /\ tokens = NullTokens
    /\ wordcount = 0
    /\ future = <<>>
    /\ matches = <<>>
    /\ ints = Zero
    /\ taskRes = RetUndef
    /\ results = RetUndef
    /\ ret = Pending

\* the default options: opts = {} when left out, then each default written.
\* A property cannot be read from null, nor written to a primitive.
Options ==
    /\ pc = "call"
    /\ IF optsArg.kind \in {"null", "primitive"}
       THEN /\ pc' = "thrown"
            /\ ret' = TypeError
            /\ opts' = opts
       ELSE /\ pc' = "checkStr"
            /\ opts' = ResolveOptions(opts)
            /\ ret' = ret
    /\ UNCHANGED <<str0, optsArg, str, tokens, wordcount, future, matches,
                   ints, taskRes, results>>

\* no string return null; else make it a string, trimmed and in lowercase
Normalise ==
    /\ pc = "checkStr"
    /\ IF Falsy(str)
       THEN /\ pc' = "done"
            /\ ret' = RetNull
            /\ str' = str
       ELSE /\ pc' = "locale"
            /\ str' = Str(toLowerCase(trim(toString(str))))
            /\ ret' = ret
    /\ UNCHANGED <<str0, optsArg, opts, tokens, wordcount, future, matches,
                   ints, taskRes, results>>

\* opts.locale.match(/gb/gi): translate when selected
Translate ==
    /\ pc = "locale"
    /\ IF opts.locale.t # "string"
       THEN /\ pc' = "thrown"
            /\ ret' = TypeError
            /\ str' = str
       ELSE /\ pc' = "tokenize"
            /\ str' = IF MatchesRe(opts.locale.s, "gb") THEN Str(uk2us(str.s)) ELSE str
            /\ ret' = ret
    /\ UNCHANGED <<str0, optsArg, opts, tokens, wordcount, future, matches,
                   ints, taskRes, results>>

\* convert the string to tokens; if there are no tokens return null
Tokenise ==
    /\ pc = "tokenize"
    /\ \E t \in tokenizer(str.s) :
          /\ tokens' = t
          /\ IF NoTokens(t)
             THEN /\ pc' = "done"
                  /\ ret' = RetNull
                  /\ wordcount' = wordcount
             ELSE /\ pc' = "ngrams"
                  /\ wordcount' = Len(t.arr)
                  /\ ret' = ret
    /\ UNCHANGED <<str0, optsArg, str, opts, future, matches, ints, taskRes, results>>

\* the n-gram step, were wordcount recalculated whatever wcGrams is
ExpandRecounting ==
    /\ pc = "ngrams"
    /\ LET nGrams   == opts.nGrams.a
           expanded == IF 0 \notin Range(nGrams)
                       THEN EachNGram(nGrams, tokens.arr, str.s, wordcount)
                       ELSE tokens.arr
       IN  /\ tokens' = TokenArray(expanded)
           /\ wordcount' = Len(expanded)
    /\ pc' = "gate"
    /\ UNCHANGED <<str0, optsArg, str, opts, future, matches, ints, taskRes, results,
                   ret>>

\* get the n-grams, and recalculate wordcount if wcGrams is true
Expand ==
    /\ pc = "ngrams"
    /\ LET nGrams   == opts.nGrams.a
           expanded == IF 0 \notin Range(nGrams)
                       THEN EachNGram(nGrams, tokens.arr, str.s, wordcount)
                       ELSE tokens.arr
       IN  /\ tokens' = TokenArray(expanded)
           /\ wordcount' = IF opts.wcGrams = True THEN Len(expanded) ELSE wordcount
    /\ pc' = "gate"
    /\ UNCHANGED <<str0, optsArg, str, opts, future, matches, ints, taskRes, results,
                   ret>>

\* count the future matches and match them against the affect lexicon
Gate ==
    /\ pc = "gate"
    /\ future' = itemCount(getFuture(tokens.arr))
    /\ matches' = getMatches(future', affectLex, opts.min, opts.max)
    /\ ints' = IF opts.noInt = True THEN Zero ELSE Intercept
    /\ pc' = "output"
    /\ UNCHANGED <<str0, optsArg, str, opts, tokens, wordcount, taskRes, results,
                   ret>>

\* output!  output.match(/matches/gi), else output.match(/full/gi), else lex
Output ==
    /\ pc = "output"
    /\ IF opts.output.t # "string"
       THEN pc' = "thrown" /\ ret' = TypeError
       ELSE IF MatchesRe(opts.output.s, "matches")
       THEN /\ pc' = "done"
            /\ ret' = Ret("matches", NoLex,
                          doMatches(matches, opts.encoding, wordcount,
                                    opts.sortBy, opts.places))
       ELSE IF MatchesRe(opts.output.s, "full")
       THEN pc' = "parallel" /\ ret' = ret
       ELSE /\ pc' = "done"
            /\ ret' = Ret("lex",
                          doLex(matches, ints, opts.encoding, wordcount,
                                opts.places),
                          NoMatches)
    /\ UNCHANGED <<str0, optsArg, str, opts, tokens, wordcount, future, matches,
                   ints, taskRes, results>>

\* async.parallel runs the task 'matches', which calls back with its result
ParallelMatches ==
    /\ pc = "parallel"
    /\ taskRes' = Ret("partial", NoLex,
                      doMatches(matches, opts.encoding, wordcount, opts.sortBy,
                                opts.places))
    /\ pc' = "parallel2"
    /\ UNCHANGED <<str0, optsArg, str, opts, tokens, wordcount, future, matches,
                   ints, results, ret>>

\* async.parallel runs the task 'values', the last one
ParallelValues ==
    /\ pc = "parallel2"
    /\ taskRes' = Ret("full",
                      doLex(matches, ints, opts.encoding, wordcount, opts.places),
                      taskRes.matches)
    /\ pc' = AfterLastTask
    /\ UNCHANGED <<str0, optsArg, str, opts, tokens, wordcount, future, matches,
                   ints, results, ret>>

\* the completion callback of async.parallel: results = res
Complete ==
    /\ pc = "complete"
    /\ results' = taskRes
    /\ pc' = "return"
    /\ UNCHANGED <<str0, optsArg, str, opts, tokens, wordcount, future, matches,
                   ints, taskRes, ret>>

\* return results
ReturnResults ==
    /\ pc = "return"
    /\ ret' = results
    /\ pc' = "done"
    /\ UNCHANGED <<str0, optsArg, str, opts, tokens, wordcount, future, matches,
                   ints, taskRes, results>>

Next ==
    \/ Options
    \/ Normalise
    \/ Translate
    \/ Tokenise
    \/ Expand
    \/ Gate
    \/ Output
    \/ ParallelMatches
    \/ ParallelValues
    \/ Complete
    \/ ReturnResults

Spec == Init /\ [][Next]_vars

\* str made a string, trimmed, in lowercase, and translated when the locale
\* selects it
NormalisedText(v, o) ==
    LET s == toLowerCase(trim(toString(v)))
    IN  IF MatchesRe(o.locale.s, "gb") THEN uk2us(s) ELSE s

\* what the call returns for the tokens toks of the normalised string s under
\* the resolved options o: the body of optimismo from 'get wordcount' on
ResultFrom(toks, s, o) ==
    LET nGrams   == o.nGrams.a
        expanded == IF 0 \notin Range(nGrams)
                    THEN EachNGram(nGrams, toks, s, Len(toks))
                    ELSE toks
        wc       == IF o.wcGrams = True THEN Len(expanded) ELSE Len(toks)
        m        == getMatches(itemCount(getFuture(expanded)), affectLex,
                               o.min, o.max)
        int      == IF o.noInt = True THEN Zero ELSE Intercept
        table    == doMatches(m, o.encoding, wc, o.sortBy, o.places)
        lex      == doLex(m, int, o.encoding, wc, o.places)
    IN  IF o.output.t # "string" THEN TypeError
        ELSE IF MatchesRe(o.output.s, "matches") THEN Ret("matches", NoLex, table)
        ELSE IF MatchesRe(o.output.s, "full") THEN Ret("full", lex, table)
        ELSE Ret("lex", lex, NoMatches)

---------------------------------------------------------------------------
(* optimismo v2.0.1 *)

\* the option values the calls of v2.0.1 are made with
MinValues201    == {Undef, Num(0), Num(-50)}
MaxValues201    == {Undef, Num(0), Num(50)}
PlacesValues201 == {Undef, Num(0), Num(200)}
OutputValues201 == {Undef, Str(<<"lex">>), Str(<<"matches">>), Str(<<"full">>),
                    Str(<<"MATCHES">>)}
NGramValues201  == {Undef, Str(<<"true">>), Str(<<"false">>), False}
WcGramValues201 == {Undef, Str(<<"true">>), True, False}

OptObjects201 ==
    {[EmptyOpts EXCEPT !.min = a, !.max = b, !.places = c] :
        a \in MinValues201, b \in MaxValues201, c \in PlacesValues201}
    \cup
    {[EmptyOpts EXCEPT !.output = o, !.encoding = e] :
        o \in OutputValues201, e \in {Undef, Str(<<"frequency">>)}}
    \cup
    {[EmptyOpts EXCEPT !.nGrams = g, !.wcGrams = w] :
        g \in NGramValues201, w \in WcGramValues201}
    \cup
    {[EmptyOpts EXCEPT !.sortBy = Str(<<"weight">>), !.output = Str(<<"full">>)]}

OptsArgs201 ==
    {[kind |-> k, obj |-> EmptyOpts] : k \in {"omitted", "null", "primitive"}}
    \cup {[kind |-> "object", obj |-> o] : o \in OptObjects201}

\* the object assigned to opts when the argument is no object
DefaultOpts201 ==
    [EmptyOpts EXCEPT !.encoding = Str(<<"binary">>), !.max = PosInf,
                      !.min = NegInf, !.nGrams = Str(<<"true">>),
                      !.output = Str(<<"lex">>), !.places = Num(900),
                      !.sortBy = Str(<<"freq">>), !.wcGrams = Str(<<"false">>)]

\* v || d
OrDefault(v, d) == IF Falsy(v) THEN d ELSE v

\* opts.x = opts.x || default, for each option
ResolveOptions201(o) ==
    [o EXCEPT !.encoding = OrDefault(o.encoding, Str(<<"binary">>)),
              !.max      = OrDefault(o.max, PosInf),
              !.min      = OrDefault(o.min, NegInf),
              !.nGrams   = OrDefault(o.nGrams, Str(<<"true">>)),
              !.output   = OrDefault(o.output, Str(<<"lex">>)),
              !.places   = OrDefault(o.places, Num(900)),
              !.sortBy   = OrDefault(o.sortBy, Str(<<"freq">>)),
              !.wcGrams  = OrDefault(o.wcGrams, Str(<<"false">>))]

Reverse(seq) == [i \in DOMAIN seq |-> seq[Len(seq) + 1 - i]]

\* getFuture (v2.0.1): the words of lexicon.FUTURE found in arr, each once,
\* from the last key to the first
getFuture201(arr) == SelectSeq(Reverse(futureLex), LAMBDA w : w \in Range(arr))

Init201 ==
    /\ pc = "call201"
    /\ str0 \in StrArgs
    /\ optsArg \in OptsArgs201
    /\ str = str0
    /\ opts = optsArg.obj
    /\ tokens = NullTokens
    /\ wordcount = 0
    /\ future = <<>>
    /\ matches = <<>>
    /\ ints = Intercept
    /\ taskRes = RetUndef
    /\ results = RetUndef
    /\ ret = Pending

\* no string return null; else make it a string, trimmed and in lowercase
Normalise201 ==
    /\ pc = "call201"
    /\ IF Falsy(str)
       THEN /\ pc' = "done201"
            /\ ret' = RetNull
            /\ str' = str
       ELSE /\ pc' = "options201"
            /\ str' = Str(toLowerCase(trim(toString(str))))
            /\ ret' = ret
    /\ UNCHANGED <<str0, optsArg, opts, tokens, wordcount, future, matches,
                   ints, taskRes, results>>

\* options defaults: a new object unless opts is an object, then each
\* option or its default
Options201 ==
    /\ pc = "options201"
    /\ opts' = IF optsArg.kind = "object"
               THEN ResolveOptions201(opts)
               ELSE ResolveOptions201(DefaultOpts201)
    /\ pc' = "tokenize201"
    /\ UNCHANGED <<str0, optsArg, str, tokens, wordcount, future, matches, ints,
                   taskRes, results, ret>>

\* convert the string to tokens; if there are no tokens return null
Tokenise201 ==
    /\ pc = "tokenize201"
    /\ \E t \in tokenizer(str.s) :
          /\ tokens' = t
          /\ IF NoTokens(t)
             THEN /\ pc' = "done201"
                  /\ ret' = RetNull
                  /\ wordcount' = wordcount
             ELSE /\ pc' = "ngrams201"
                  /\ wordcount' = Len(t.arr)
                  /\ ret' = ret
    /\ UNCHANGED <<str0, optsArg, str, opts, future, matches, ints, taskRes, results>>

\* get the n-grams: the bigrams, then the trigrams, behind the tokens; and
\* recalculate wordcount if wcGrams is 'true'
Expand201 ==
    /\ pc = "ngrams201"
    /\ LET expanded == IF opts.nGrams = Str(<<"true">>) /\ wordcount > 2
                       THEN tokens.arr \o arr2string(simplengrams(str.s, 2))
                                       \o arr2string(simplengrams(str.s, 3))
                       ELSE tokens.arr
       IN  /\ tokens' = TokenArray(expanded)
           /\ wordcount' = IF opts.wcGrams = Str(<<"true">>)
                           THEN Len(expanded) ELSE wordcount
    /\ pc' = "gate201"
    /\ UNCHANGED <<str0, optsArg, str, opts, future, matches, ints, taskRes, results,
                   ret>>

\* count the future matches and match them against the affect lexicon
Gate201 ==
    /\ pc = "gate201"
    /\ future' = itemCount(getFuture201(tokens.arr))
    /\ matches' = getMatches(future', affectLex, opts.min, opts.max)
    /\ pc' = "output201"
    /\ UNCHANGED <<str0, optsArg, str, opts, tokens, wordcount, ints, taskRes,
                   results, ret>>

\* output!  output === 'matches', else output === 'full', else lex
Output201 ==
    /\ pc = "output201"
    /\ IF opts.output = Str(<<"matches">>)
       THEN /\ pc' = "done201"
            /\ ret' = Ret("matches", NoLex,
                          doMatches(matches, opts.encoding, wordcount,
                                    opts.sortBy, opts.places))
       ELSE IF opts.output = Str(<<"full">>)
       THEN pc' = "parallel201" /\ ret' = ret
       ELSE /\ pc' = "done201"
            /\ ret' = Ret("lex",
                          doLex(matches, ints, opts.encoding, wordcount,
                                opts.places),
                          NoMatches)
    /\ UNCHANGED <<str0, optsArg, str, opts, tokens, wordcount, future, matches,
                   ints, taskRes, results>>

\* async.parallel runs the first task: full.matches is set
ParallelMatches201 ==
    /\ pc = "parallel201"
    /\ taskRes' = Ret("partial", NoLex,
                      doMatches(matches, opts.encoding, wordcount, opts.sortBy,
                                opts.places))
    /\ pc' = "parallel201b"
    /\ UNCHANGED <<str0, optsArg, str, opts, tokens, wordcount, future, matches,
                   ints, results, ret>>

\* async.parallel runs the second task: full.values is set
ParallelValues201 ==
    /\ pc = "parallel201b"
    /\ taskRes' = Ret("full",
                      doLex(matches, ints, opts.encoding, wordcount, opts.places),
                      taskRes.matches)
    /\ pc' = "complete201"
    /\ UNCHANGED <<str0, optsArg, str, opts, tokens, wordcount, future, matches,
                   ints, results, ret>>

\* the completion callback of async.parallel returns full, to async.parallel
Complete201 ==
    /\ pc = "complete201"
    /\ pc' = "end201"
    /\ UNCHANGED <<str0, optsArg, str, opts, tokens, wordcount, future, matches,
                   ints, taskRes, results, ret>>

\* the end of the body of optimismo is reached without a return statement
FallThrough201 ==
    /\ pc = "end201"
    /\ ret' = RetUndef
    /\ pc' = "done201"
    /\ UNCHANGED <<str0, optsArg, str, opts, tokens, wordcount, future, matches,
                   ints, taskRes, results>>

Next201 ==
    \/ Normalise201
    \/ Options201
    \/ Tokenise201
    \/ Expand201
    \/ Gate201
    \/ Output201
    \/ ParallelMatches201
    \/ ParallelValues201
    \/ Complete201
    \/ FallThrough201

Spec201 == Init201 /\ [][Next201]_vars

\* v4.0.1 and v2.0.1 side by side: a call of either
InitAll == Init \/ Init201

NextAll == Next \/ Next201

SpecAll == InitAll /\ [][NextAll]_vars

---------------------------------------------------------------------------
(* optimismo v0.4.0 *)

\* getFuture (v0.4.0): the words of lexicon.FUTURE found in arr, each once
getFuture040(arr) == SelectSeq(futureLex, LAMBDA w : w \in Range(arr))

\* getAffect (v0.4.0): the weights of the words of lexicon.AFFECT found in arr
getAffect040(arr) ==
    LET sel == SelectSeq(affectLex, LAMBDA e : e.word \in Range(arr))
    IN  [i \in DOMAIN sel |-> sel[i].weight]

Init040 ==
    /\ pc = "call040"
    /\ str0 \in StrArgs
    /\ optsArg = [kind |-> "omitted", obj |-> EmptyOpts]
    /\ str = str0
    /\ opts = EmptyOpts
    /\ tokens = NullTokens
    /\ wordcount = 0
    /\ future = <<>>
    /\ matches = <<>>
    /\ ints = Intercept
    /\ taskRes = RetUndef
    /\ results = RetUndef
    /\ ret = Pending

\* make sure there is input, and that it is a string, in lowercase, trimmed
Normalise040 ==
    /\ pc = "call040"
    /\ IF str.t \in {"null", "undefined"}
       THEN /\ pc' = "done"
            /\ ret' = RetNull
            /\ str' = str
       ELSE /\ pc' = "tokenize040"
            /\ str' = Str(trim(toLowerCase(toString(str))))
            /\ ret' = ret
    /\ UNCHANGED <<str0, optsArg, opts, tokens, wordcount, future, matches,
                   ints, taskRes, results>>

\* convert the string to tokens; if no tokens return null
Tokenise040 ==
    /\ pc = "tokenize040"
    /\ \E t \in tokenizer(str.s) :
          /\ tokens' = t
          /\ IF t.isNull
             THEN pc' = "done" /\ ret' = RetNull
             ELSE pc' = "ngrams040" /\ ret' = ret
    /\ UNCHANGED <<str0, optsArg, str, opts, wordcount, future, matches, ints,
                   taskRes, results>>

\* the bigrams and the trigrams are added behind the tokens
Expand040 ==
    /\ pc = "ngrams040"
    /\ tokens' = TokenArray(tokens.arr \o arr2string(simplengrams(str.s, 2))
                                       \o arr2string(simplengrams(str.s, 3)))
    /\ pc' = "score040"
    /\ UNCHANGED <<str0, optsArg, str, opts, wordcount, future, matches, ints,
                   taskRes, results, ret>>

\* the future matches, their affect weights, and the lexical value returned
Score040 ==
    /\ pc = "score040"
    /\ LET fut == getFuture040(tokens.arr)
           aff == getAffect040(fut)
       IN  /\ future' = [i \in DOMAIN fut |-> [term |-> fut[i], freq |-> 1]]
           /\ matches' = aff
           /\ ret' = Ret("lex", [value |-> calcLex(aff, Intercept), places |-> Undef],
                         NoMatches)
    /\ pc' = "done"
    /\ UNCHANGED <<str0, optsArg, str, opts, tokens, wordcount, ints, taskRes,
                   results>>

Next040 ==
    \/ Normalise040
    \/ Tokenise040
    \/ Expand040
    \/ Score040

Spec040 == Init040 /\ [][Next040]_vars

---------------------------------------------------------------------------
(* optimismo v0.1.4 *)

\* lexicon.FUTURE of ./data/lexicon.json (v0.1.4): here the word with the
\* smallest weight of lexicon.AFFECT is a future word as well
lexiconFuture014 == Append(futureLex, <<"sad">>)

\* the min arguments: left out, null, numbers (-0.98 is the smallest weight
\* of the lexicon) and strings
MinArgs014 == {Undef, Null, Num(-98), Num(-99), Num(60), Str(<<"0.5">>),
               Str(<<"abc">>)}

\* getFuture (v0.1.4): the words of lexicon.FUTURE found in arr, each once
getFuture014(arr) == SelectSeq(lexiconFuture014, LAMBDA w : w \in Range(arr))

\* getMatches (v0.1.4): the weights of the words of lexicon.AFFECT found in
\* arr whose weight > min
getMatches014(arr, min) ==
    LET sel == SelectSeq(affectLex,
                         LAMBDA e : /\ e.word \in Range(arr)
                                    /\ NumLess(ToNumber(min), Num(e.weight)))
    IN  [i \in DOMAIN sel |-> sel[i].weight]

\* the local min once it has been defaulted (-999) and made a number
ResolveMin014(min) ==
    LET min1 == IF min.t \in {"null", "undefined"} THEN Num(-99900) ELSE min
    IN  IF TypeOf(min1) # "string" THEN ToNumber(min1) ELSE min1

Init014 ==
    /\ pc = "call014"
    /\ str0 \in StrArgs
    /\ optsArg \in {[kind |-> "min", obj |-> [EmptyOpts EXCEPT !.min = m]] :
                      m \in MinArgs014}
    /\ str = str0
    /\ opts = optsArg.obj
    /\ tokens = NullTokens
    /\ wordcount = 0
    /\ future = <<>>
    /\ matches = <<>>
    /\ ints = Intercept
    /\ taskRes = RetUndef
    /\ results = RetUndef
    /\ ret = Pending

\* make sure there is input, and that it is a string, in lowercase, trimmed
Normalise014 ==
    /\ pc = "call014"
    /\ IF str.t \in {"null", "undefined"}
       THEN /\ pc' = "done014"
            /\ ret' = RetNull
            /\ str' = str
       ELSE /\ pc' = "tokenize014"
            /\ str' = Str(trim(toLowerCase(toString(str))))
            /\ ret' = ret
    /\ UNCHANGED <<str0, optsArg, opts, tokens, wordcount, future, matches,
                   ints, taskRes, results>>

\* convert the string to tokens; if (tokens == null) return 0
Tokenise014 ==
    /\ pc = "tokenize014"
    /\ \E t \in tokenizer(str.s) :
          /\ tokens' = t
          /\ IF t.isNull
             THEN pc' = "done014" /\ ret' = Ret("lex", NoLex, NoMatches)
             ELSE pc' = "future014" /\ ret' = ret
    /\ UNCHANGED <<str0, optsArg, str, opts, wordcount, future, matches, ints,
                   taskRes, results>>

\* get the future tokens; default min and make it a number
Gate014 ==
    /\ pc = "future014"
    /\ LET fut == getFuture014(tokens.arr)
       IN  future' = [i \in DOMAIN fut |-> [term |-> fut[i], freq |-> 1]]
    /\ opts' = [opts EXCEPT !.min = ResolveMin014(opts.min)]
    /\ pc' = "score014"
    /\ UNCHANGED <<str0, optsArg, str, tokens, wordcount, matches, ints, taskRes,
                   results, ret>>

\* match the future tokens against the affect lexicon; return the lexical
\* value
Score014 ==
    /\ pc = "score014"
    /\ LET aff == getMatches014([i \in DOMAIN future |-> future[i].term], opts.min)
       IN  /\ matches' = aff
           /\ ret' = Ret("lex", [value |-> calcLex(aff, Intercept), places |-> Undef],
                         NoMatches)
    /\ pc' = "done014"
    /\ UNCHANGED <<str0, optsArg, str, opts, tokens, wordcount, future, ints,
                   taskRes, results>>

Next014 ==
    \/ Normalise014
    \/ Tokenise014
    \/ Gate014
    \/ Score014

Spec014 == Init014 /\ [][Next014]_vars

---------------------------------------------------------------------------
(* optimismo v0.2.0 *)

\* an options object (v0.2.0) without any property
EmptyOpts020 == [threshold |-> Undef, bigrams |-> Undef, trigrams |-> Undef]

\* the opts argument: left out, null, a primitive such as 5, or an object
OptsArgs020 ==
    {[kind |-> k, obj |-> EmptyOpts020] : k \in {"omitted", "null", "primitive"}}
    \cup {[kind |-> "object",
           obj  |-> [threshold |-> t, bigrams |-> b, trigrams |-> g]] :
             t \in {Undef, Num(-98), Num(0), Num(50)},
             b \in {Undef, True, False},
             g \in {Undef, True, False}}

\* the object assigned to opts when opts == null
DefaultOpts020 == [threshold |-> Num(-99900), bigrams |-> True, trigrams |-> True]

\* opts.threshold = opts.threshold || -999, opts.bigrams = opts.bigrams ||
\* true, opts.trigrams = opts.trigrams || true
ResolveOptions020(o) ==
    [threshold |-> OrDefault(o.threshold, Num(-99900)),
     bigrams   |-> OrDefault(o.bigrams, True),
     trigrams  |-> OrDefault(o.trigrams, True)]

\* getBigrams: the bigrams of str, each joined by ' '
getBigrams(s) == arr2string(simplengrams(s, 2))

\* getTrigrams: the trigrams of str, each joined by ' '
getTrigrams(s) == arr2string(simplengrams(s, 3))

\* getFuture (v0.2.0): the words of lexicon.FUTURE found in arr, each once
getFuture020(arr) == SelectSeq(futureLex, LAMBDA w : w \in Range(arr))

\* getMatches (v0.2.0): the weights of the words of lexicon.AFFECT found in
\* arr whose weight > min
getMatches020(arr, min) ==
    LET sel == SelectSeq(affectLex,
                         LAMBDA e : /\ e.word \in Range(arr)
                                    /\ NumLess(ToNumber(min), Num(e.weight)))
    IN  [i \in DOMAIN sel |-> sel[i].weight]

Init020 ==
    /\ pc = "call020"
    /\ str0 \in StrArgs
    /\ optsArg \in OptsArgs020
    /\ str = str0
    /\ opts = optsArg.obj
    /\ tokens = NullTokens
    /\ wordcount = 0
    /\ future = <<>>
    /\ matches = <<>>
    /\ ints = Intercept
    /\ taskRes = RetUndef
    /\ results = RetUndef
    /\ ret = Pending

\* make sure there is input, and that it is a string, in lowercase, trimmed
Normalise020 ==
    /\ pc = "call020"
    /\ IF str.t \in {"null", "undefined"}
       THEN /\ pc' = "done020"
            /\ ret' = RetNull
            /\ str' = str
       ELSE /\ pc' = "options020"
            /\ str' = Str(trim(toLowerCase(toString(str))))
            /\ ret' = ret
    /\ UNCHANGED <<str0, optsArg, opts, tokens, wordcount, future, matches,
                   ints, taskRes, results>>

\* option defaults: a new object when opts == null, then each option or its
\* default.  A property cannot be written to a primitive.
Options020 ==
    /\ pc = "options020"
    /\ IF optsArg.kind = "primitive"
       THEN /\ pc' = "thrown020"
            /\ ret' = TypeError
            /\ opts' = opts
       ELSE /\ pc' = "tokenize020"
            /\ opts' = IF optsArg.kind = "object"
                       THEN ResolveOptions020(opts)
                       ELSE ResolveOptions020(DefaultOpts020)
            /\ ret' = ret
    /\ UNCHANGED <<str0, optsArg, str, tokens, wordcount, future, matches, ints,
                   taskRes, results>>

\* convert the string to tokens; if (tokens == null) return 0
Tokenise020 ==
    /\ pc = "tokenize020"
    /\ \E t \in tokenizer(str.s) :
          /\ tokens' = t
          /\ IF t.isNull
             THEN pc' = "done020" /\ ret' = Ret("lex", NoLex, NoMatches)
             ELSE pc' = "ngrams020" /\ ret' = ret
    /\ UNCHANGED <<str0, optsArg, str, opts, wordcount, future, matches, ints,
                   taskRes, results>>

\* handle bigrams if wanted, then trigrams if wanted
Expand020 ==
    /\ pc = "ngrams020"
    /\ LET t1 == IF ~Falsy(opts.bigrams)
                 THEN tokens.arr \o getBigrams(str.s) ELSE tokens.arr
           t2 == IF ~Falsy(opts.trigrams) THEN t1 \o getTrigrams(str.s) ELSE t1
       IN  tokens' = TokenArray(t2)
    /\ pc' = "score020"
    /\ UNCHANGED <<str0, optsArg, str, opts, wordcount, future, matches, ints,
                   taskRes, results, ret>>

\* the future matches, their affect weights above the threshold, and the
\* lexical value returned
Score020 ==
    /\ pc = "score020"
    /\ LET fut == getFuture020(tokens.arr)
           aff == getMatches020(fut, opts.threshold)
       IN  /\ future' = [i \in DOMAIN fut |-> [term |-> fut[i], freq |-> 1]]
           /\ matches' = aff
           /\ ret' = Ret("lex", [value |-> calcLex(aff, Intercept), places |-> Undef],
                         NoMatches)
    /\ pc' = "done020"
    /\ UNCHANGED <<str0, optsArg, str, opts, tokens, wordcount, ints, taskRes,
                   results>>

Next020 ==
    \/ Normalise020
    \/ Options020
    \/ Tokenise020
    \/ Expand020
    \/ Score020

Spec020 == Init020 /\ [][Next020]_vars

---------------------------------------------------------------------------
(* Properties *)

RECURSIVE SumWeights(_)
\* the sum of the affect weights of a set of lexicon words
SumWeights(S) ==
    IF S = {} THEN 0
    ELSE LET w == CHOOSE x \in S : TRUE
         IN  WeightOf(w) + SumWeights(S \ {w})

\* the call got past the default options
OptionsResolved == optsArg.kind \in {"omitted", "object"} /\ pc # "call"

\* the call returned a result (not null, and nothing was thrown)
ReturnedResult == pc = "done" /\ ret.kind \in {"lex", "matches", "full", "undefined"}

\* the distinct terms of the token sequence that are in both lexica and whose
\* weight is within the resolved bounds
MatchedTerms ==
    {w \in (Range(tokens.arr) \cap FutureSet) \cap AffectKeys :
        /\ NumLess(opts.min, Num(WeightOf(w)))
        /\ NumLeq(Num(WeightOf(w)), opts.max)}

\* C1: in v4.0.1, with str null, undefined or the empty string the call
\* returns null and never throws, whatever the opts argument is.
C1_EmptyInputReturnsNull ==
    str0 \in {Null, Undef, Str(<<>>)} =>
        /\ pc # "thrown"
        /\ pc = "done" => ret = RetNull

\* C2: whenever the tokenizer yields no tokens (null or an empty token
\* sequence) the call returns null and does not go on to gating, matching
\* or scoring.
C2_NoTokensReturnsNull ==
    (/\ pc \notin {"call", "checkStr", "locale", "tokenize", "thrown"}
     /\ (tokens.isNull \/ tokens.arr = <<>>))
        => (pc = "done" /\ ret = RetNull)

\* C3: for a text that yields tokens the call never throws, whatever the
\* values of the options are.
C3_NeverThrowsOnOptions ==
    (/\ optsArg.kind \in {"omitted", "object"}
     /\ str0.t = "string"
     /\ Words(str0.s) # <<>>)
        => pc # "thrown"

\* C4: after option resolution a min or max that cannot be converted to a
\* number is replaced by its default (-Infinity, +Infinity), the bounds are
\* never NaN, and a number given as a bound is kept as given.
C4_InvalidBoundsDefault ==
    OptionsResolved =>
        LET givenMin == optsArg.obj.min
            givenMax == optsArg.obj.max
        IN  /\ opts.min.t # "nan" /\ opts.max.t # "nan"
            /\ ToNumber(givenMin).t = "nan" => opts.min = NegInf
            /\ ToNumber(givenMax).t = "nan" => opts.max = PosInf
            /\ givenMin.t = "num" => opts.min = givenMin
            /\ givenMax.t = "num" => opts.max = givenMax

\* C5: the matches result is returned only when output is 'matches', the
\* combined result only when output is 'full'; every other output value
\* yields the lex result.
C5_OutputModeExact ==
    (pc = "done" /\ ret.kind \in {"lex", "matches", "full"}) =>
        /\ ret.kind = "matches" <=> opts.output = Str(<<"matches">>)
        /\ ret.kind = "full" <=> opts.output = Str(<<"full">>)

\* C6: with output 'full' the value returned holds both sections, the
\* matches table and the values: the completion callback of async.parallel
\* has assigned results before the return statement is reached.
C6_FullReturnsBothSections ==
    /\ pc = "return" => results.kind = "full"
    /\ (ReturnedResult /\ opts.output = Str(<<"full">>)) =>
          /\ ret.kind = "full"
          /\ ret.matches = doMatches(matches, opts.encoding, wordcount,
                                     opts.sortBy, opts.places)
          /\ ret.values = doLex(matches, ints, opts.encoding, wordcount,
                                opts.places)

C6_Witness ==
    /\ pc = "done"
    /\ opts.output = Str(<<"full">>)
    /\ ret.kind = "full"
    /\ Len(ret.matches.rows) = 2
    /\ ret.values.value = Score(1, 100, 1)

\* C7: every term handed to getMatches, and so every term of the matches, is
\* in the future vocabulary and occurs in the expanded token sequence; a
\* token of the affect lexicon that is not in the future vocabulary is in no
\* match and adds nothing to the score.
C7_GatingInvariant ==
    /\ \A k \in DOMAIN future :
          future[k].term \in FutureSet /\ future[k].term \in Range(tokens.arr)
    /\ \A k \in DOMAIN matches :
          matches[k].term \in FutureSet /\ matches[k].term \in Range(tokens.arr)
    /\ \A k \in DOMAIN ret.matches.rows : ret.matches.rows[k].term \in FutureSet
    /\ (ReturnedResult /\ Range(tokens.arr) \cap FutureSet = {}) =>
          ret.values.value.num = 0 /\ ret.matches.rows = <<>>

C7_Witness ==
    /\ pc = "done"
    /\ ret.kind = "full"
    /\ <<"sad">> \in Range(tokens.arr)
    /\ Len(matches) = 1
    /\ ret.values.value = Score(1, 60, 1)

\* C8: the frequency recorded for each gated term is the number of times the
\* term occurs in the expanded token sequence.
C8_FrequencyIsOccurrenceCount ==
    \A k \in DOMAIN future :
        future[k].freq = Count(future[k].term, tokens.arr)

C10_NoMatchesReturnsZero ==
    (pc = "done" /\ ret.kind = "lex" /\ matches = <<>>) => ret.values.value = Zero

\* the words of the input (v0.1.4) that are in lexicon.FUTURE and in
\* lexicon.AFFECT
GatedAffect014 == (Range(tokens.arr) \cap Range(lexiconFuture014)) \cap AffectKeys

\* C11: in v0.1.4 a min of -0.98, the smallest weight of the lexicon,
\* includes all words: every gated word of the affect lexicon, the one whose
\* weight is exactly -0.98 too, is in the matches that are summed.
C11_MinIncludesAllWords ==
    (/\ pc = "done014"
     /\ ~tokens.isNull
     /\ optsArg.obj.min = Num(-98))
        => /\ Len(matches) = Cardinality(GatedAffect014)
           /\ ret.values.value = Score(1, SumWeights(GatedAffect014), 1)

\* seq with x put behind its first p items
InsertAt(seq, p, x) == SubSeq(seq, 1, p) \o <<x>> \o SubSeq(seq, p + 1, Len(seq))

\* the k-th word of the input is a matched word: its token is a term of the
\* matches
MatchedWordAt(k) == \E j \in DOMAIN matches : matches[j].term = Words(str.s)[k]

\* what v4.0.1 returns, under the options of this call, for the input with a
\* further occurrence of its k-th word put behind its first p words
ResultWithInserted(k, p) ==
    LET w0   == Words(str0.s)
        text == NormalisedText(Str(JoinSpace(InsertAt(w0, p, w0[k]))), opts)
    IN  ResultFrom(Words(text), text, opts)

\* the call returned the lex result for a text, the encoding option being
\* left out or 'binary'
BinaryLexReturned ==
    /\ pc = "done"
    /\ ret.kind = "lex"
    /\ str0.t = "string"
    /\ optsArg.obj.encoding \in {Undef, Str(<<"binary">>)}

Expanded ==
    \/ pc \in {"gate", "output", "parallel", "parallel2", "complete", "return"}
    \/ pc = "done" /\ ret.kind \in {"lex", "matches", "full"}

\* the number of n-grams of the requested lengths the text is long enough for
RECURSIVE GramCount(_, _)
GramCount(nGrams, uni) ==
    IF nGrams = <<>> THEN 0
    ELSE (IF uni < nGrams[1] THEN 0 ELSE uni - nGrams[1] + 1)
         + GramCount(Tail(nGrams), uni)

\* C13: in v4.0.1, unless expansion is disabled by a 0 in nGrams, every
\* requested length n the text has enough tokens for has its n-grams in the
\* token sequence, every longer requested length contributes no token, and
\* nothing else is added or lost: a skipped length does not keep another
\* length, before or behind it in nGrams, from being expanded.
C13_ExpansionPerLength ==
    (Expanded /\ 0 \notin Range(opts.nGrams.a)) =>
        LET uni == Len(Words(str.s))
        IN  /\ \A n \in Range(opts.nGrams.a) :
                  IF uni >= n
                  THEN Range(arr2string(simplengrams(str.s, n))) \subseteq Range(tokens.arr)
                  ELSE \A i \in DOMAIN tokens.arr : Len(Words(tokens.arr[i])) # n
            /\ Len(tokens.arr) = uni + GramCount(opts.nGrams.a, uni)

C13_Witness ==
    /\ pc = "done"
    /\ ret.kind = "lex"
    /\ opts.nGrams = Arr(<<3, 2>>)
    /\ str = Str(<<"will", " ", "favor">>)
    /\ <<"will", " ", "favor">> \in Range(tokens.arr)
    /\ Len(tokens.arr) = 3

\* the call (v2.0.1) is past its n-gram expansion
Expanded201 ==
    \/ pc \in {"gate201", "output201", "parallel201", "parallel201b",
               "complete201", "end201"}
    \/ pc = "done201" /\ ret.kind \in {"lex", "matches", "undefined"}

\* wcGrams is enabled: true in v4.0.1, 'true' in v2.0.1
WcGramsEnabled ==
    IF Expanded201 THEN opts.wcGrams = Str(<<"true">>) ELSE opts.wcGrams = True

\* C14: once the n-grams have been added, in v4.0.1 and in v2.0.1, the
\* word count, which is the one handed on to doMatches and doLex, is the
\* number of unigram tokens of the text whenever wcGrams is not enabled, and
\* the length of the expanded token sequence when it is enabled (true in
\* v4.0.1, 'true' in v2.0.1).
C14_WordCount ==
    (Expanded \/ Expanded201) =>
        wordcount = IF WcGramsEnabled THEN Len(tokens.arr) ELSE Len(Words(str.s))

C14_Witness ==
    /\ pc = "done"
    /\ ret.kind = "lex"
    /\ opts.wcGrams = False
    /\ opts.nGrams = Arr(<<2, 3>>)
    /\ Len(tokens.arr) = 6
    /\ wordcount = 3

\* C15: the expanded token sequence (v4.0.1) holds the unigram tokens first,
\* in their original order, and behind them the n-grams by ascending span
\* length: the n-grams are appended.
C15_UnigramsFirst ==
    (Expanded /\ 0 \notin Range(opts.nGrams.a)) =>
        LET uni  == Words(str.s)
            span == [i \in DOMAIN tokens.arr |-> Len(Words(tokens.arr[i]))]
        IN  /\ SubSeq(tokens.arr, 1, Len(uni)) = uni
            /\ \A i, j \in DOMAIN span : i < j => span[i] <= span[j]

\* C16: the options object the caller passed has the same properties and
\* values after the call (v4.0.1) as before it, on every return path.
C16_OptionsNotMutated ==
    (optsArg.kind = "object" /\ pc = "done") => opts = optsArg.obj

\* C17: for a str that is a number or a boolean, 0 and false too, the call
\* (v4.0.1) returns what it returns for String(str) under the same options,
\* and not null.
C17_NonStringLikeItsString ==
    (pc = "done" /\ str0.t \in {"num", "boolean"} /\ opts.locale.t = "string") =>
        LET text == NormalisedText(Str(toString(str0)), opts)
        IN  /\ ret = ResultFrom(Words(text), text, opts)
            /\ ret # RetNull

\* the call (v2.0.1) is past its option defaults, opts being an object
OptionsResolved201 ==
    optsArg.kind = "object" /\ pc \notin {"call201", "options201"} /\ ret # RetNull

\* C18: in v2.0.1 an option set to a zero or false value (min: 0, max: 0,
\* places: 0, wcGrams: false) is used as given, not replaced by the default.
C18_ZeroAndFalseKept ==
    OptionsResolved201 =>
        /\ optsArg.obj.min = Num(0) => opts.min = Num(0)
        /\ optsArg.obj.max = Num(0) => opts.max = Num(0)
        /\ optsArg.obj.places = Num(0) => opts.places = Num(0)
        /\ optsArg.obj.wcGrams = False => opts.wcGrams = False

\* C19: in v2.0.1 a call with output 'full' on a text with tokens returns an
\* object holding both the matches and the values, never undefined.
C19_FullReturnsObject ==
    (pc = "done201" /\ opts.output = Str(<<"full">>) /\ ~tokens.isNull) =>
        /\ ret.kind = "full"
        /\ ret.matches = doMatches(matches, opts.encoding, wordcount,
                                   opts.sortBy, opts.places)
        /\ ret.values = doLex(matches, ints, opts.encoding, wordcount,
                              opts.places)

\* C20: in v2.0.1 with nGrams 'true', each length n of 2 and 3 the text has
\* enough tokens for has its n-grams in the token sequence: a text of two
\* tokens has its bigram added.
C20_EachLengthExpanded ==
    (Expanded201 /\ opts.nGrams = Str(<<"true">>)) =>
        \A n \in {2, 3} :
            Len(Words(str.s)) >= n =>
                Range(arr2string(simplengrams(str.s, n))) \subseteq Range(tokens.arr)

\* the call (v0.2.0) is past its n-gram expansion
Expanded020 ==
    \/ pc = "score020"
    \/ pc = "done020" /\ ret.kind = "lex" /\ ~tokens.isNull

\* the words of the given lengths among the tokens that are in lexicon.FUTURE
\* and in lexicon.AFFECT with a weight above the threshold
MatchedOfLengths020(lengths) ==
    {w \in (Range(tokens.arr) \cap FutureSet) \cap AffectKeys :
        /\ Len(Words(w)) \in lengths
        /\ NumLess(ToNumber(opts.threshold), Num(WeightOf(w)))}

\* C21: in v0.2.0 a caller passing bigrams: false gets no bigram among the
\* tokens, one passing trigrams: false no trigram, and the value returned
\* is computed from the matches of the remaining lengths alone.
C21_NGramOptionsControlExpansion ==
    Expanded020 =>
        LET noBi    == optsArg.kind = "object" /\ optsArg.obj.bigrams = False
            noTri   == optsArg.kind = "object" /\ optsArg.obj.trigrams = False
            lengths == {1} \cup (IF noBi THEN {} ELSE {2})
                           \cup (IF noTri THEN {} ELSE {3})
        IN  /\ noBi => \A i \in DOMAIN tokens.arr : Len(Words(tokens.arr[i])) # 2
            /\ noTri => \A i \in DOMAIN tokens.arr : Len(Words(tokens.arr[i])) # 3
            /\ pc = "done020" =>
                  ret.values.value =
                      Score(1, SumWeights(MatchedOfLengths020(lengths)), 1)

=============================================================================
